---- MODULE Spec2Model ----
(***************************************************************************)
(* The fetch pipeline of memory_foam: Client.iter_files (prefix mode) and  *)
(* Client.iter_pointers (pointer-list mode) of client/fsspec.py, with the  *)
(* Azure adapter of client/azure.py and the facade of __init__.py.         *)
(*                                                                         *)
(* Every asyncio task is a process whose position is a "pc" field; one     *)
(* action is one uninterrupted run of a task between two suspension        *)
(* points.  Strings are sequences of one-character strings.                *)
(***************************************************************************)
EXTENDS Naturals, Integers, Sequences, FiniteSets, Bags, TLC

(***************************************************************************)
(* Bounds.  The widths of the read semaphore (32), of the result queue     *)
(* (200) and of the pointer batch (5000) are scaled down; every property   *)
(* is stated in terms of the name, not of the number.                      *)
(***************************************************************************)
MaxConcurrentReads == 2
ResultQueueSize == 2
BatchSize == 2
MaxPointers == 5
MaxPagesBP == 7

\* asyncio.Queue(2) of _fetch_prefix
PageQueueSize == 2

DELIMITER == "/"
NoneItem == [none |-> TRUE]
NoGlob == <<"<none>">>
NoInfo == [none |-> TRUE]
NoFile == [none |-> TRUE]

(***************************************************************************)
(* String helpers (str.startswith, str.endswith, "//" in key, str.lstrip,  *)
(* str.rstrip, str.split(sep, 1)).                                         *)
(***************************************************************************)
StartsWith(s, c) == Len(s) > 0 /\ s[1] = c
EndsWith(s, c) == Len(s) > 0 /\ s[Len(s)] = c
ContainsDouble(s, c) == \E i \in 1..(Len(s) - 1) : s[i] = c /\ s[i + 1] = c

RECURSIVE LStrip(_, _)
LStrip(s, c) == IF StartsWith(s, c) THEN LStrip(Tail(s), c) ELSE s

RECURSIVE RStrip(_, _)
RStrip(s, c) == IF EndsWith(s, c) THEN RStrip(SubSeq(s, 1, Len(s) - 1), c) ELSE s

\* s.split(c, 1): the parts before and after the first c
Split1(s, c) ==
    IF \E i \in 1..Len(s) : s[i] = c
    THEN LET k == CHOOSE i \in 1..Len(s) : s[i] = c /\ \A j \in 1..(i - 1) : s[j] # c
         IN <<SubSeq(s, 1, k - 1), SubSeq(s, k + 1, Len(s))>>
    ELSE <<s>>

(***************************************************************************)
(* Client._is_valid_key, the glob matcher and Client._should_read.         *)
(***************************************************************************)
IsValidKeyNoDouble(key) ==
    ~(StartsWith(key, DELIMITER) \/ EndsWith(key, DELIMITER))

IsValidKey(key) ==
    ~(StartsWith(key, DELIMITER) \/ EndsWith(key, DELIMITER)
        \/ ContainsDouble(key, DELIMITER))

GetGlobMatch(g) == g

RECURSIVE FnMatch(_, _)
FnMatch(pat, s) ==
    IF pat = <<>> THEN s = <<>>
    ELSE IF pat[1] = "*"
         THEN FnMatch(Tail(pat), s) \/ (s # <<>> /\ FnMatch(pat, Tail(s)))
    ELSE IF pat[1] = "?"
         THEN s # <<>> /\ FnMatch(Tail(pat), Tail(s))
    ELSE s # <<>> /\ s[1] = pat[1] /\ FnMatch(Tail(pat), Tail(s))

IsMatch(key, glob_match) ==
    IF glob_match = NoGlob THEN TRUE ELSE FnMatch(glob_match, key)

ShouldRead(d, glob_match) ==
    IsValidKey(d.name) /\ IsMatch(d.name, glob_match)

(***************************************************************************)
(* URIs: Client.split_url, Client._get_uri, Client.get_client and          *)
(* Client.parse_url.                                                       *)
(***************************************************************************)
PREFIX(a) ==
    IF a = "az" THEN <<"a", "z", ":", "/", "/">>
    ELSE IF a = "s3" THEN <<"s", "3", ":", "/", "/">>
    ELSE <<"g", "s", ":", "/", "/">>

SplitUrl(a, url) ==
    LET fill_path == SubSeq(url, Len(PREFIX(a)) + 1, Len(url))
        path_split == Split1(fill_path, DELIMITER)
    IN <<path_split[1], IF Len(path_split) > 1 THEN path_split[2] ELSE <<>>>>

GetUri(a, name) == PREFIX(a) \o name

GetClient(a, source) ==
    LET storage_url == SplitUrl(a, source)[1]
    IN [name |-> storage_url, uri |-> GetUri(a, storage_url)]

ParseUrl(a, source) ==
    LET s == SplitUrl(a, source) IN <<GetUri(a, s[1]), s[2]>>

NormalizePrefixNoLStrip(start_prefix) ==
    IF start_prefix # <<>> THEN start_prefix \o <<DELIMITER>> ELSE start_prefix

\* prefix normalisation of _fetch_prefix
NormalizePrefix(start_prefix) ==
    IF start_prefix # <<>> THEN LStrip(start_prefix, DELIMITER) \o <<DELIMITER>>
    ELSE start_prefix

(***************************************************************************)
(* Listing entry -> FilePointer.  "origin" is a ghost field: the place of  *)
(* the listing entry (page number, position) the pointer was made from.    *)
(***************************************************************************)
\* adlfs fs._details: the blob name qualified by its container
Details(c, b) ==
    [name |-> c.name \o <<DELIMITER>> \o b.name, version_id |-> b.version]

\* Client._rel_path: fs.split_path(path)[1]
RelPath(path) ==
    LET p == Split1(LStrip(path, DELIMITER), DELIMITER)
    IN IF Len(p) > 1 THEN p[2] ELSE <<>>

AzureInfoToFilePointer(c, v, origin) ==
    [source |-> c.uri, path |-> RelPath(v.name), version |-> v.version_id,
     origin |-> origin]

SyncInfoToFilePointer(c, d, origin) ==
    [source |-> c.uri, path |-> d.name, version |-> d.version, origin |-> origin]


(***************************************************************************)
(* Inputs.  A listing is the sequence of pages the store returns; a page   *)
(* is a sequence of entries.  The Azure adapter hands pages over as async  *)
(* iterables, the other adapter as lists.                                  *)
(***************************************************************************)
E_a1 == [name |-> <<"a">>, version |-> "v1"]
E_a2 == [name |-> <<"a">>, version |-> "v2"]
E_b == [name |-> <<"b", "/", "c">>, version |-> ""]
E_lead == [name |-> <<"/", "b">>, version |-> ""]
E_trail == [name |-> <<"b", "/">>, version |-> ""]
E_dbl == [name |-> <<"a", "/", "/", "b">>, version |-> ""]

Listings ==
    { <<>>,
      << <<>> >>,
      << <<E_lead, E_trail, E_dbl>> >>,
      << <<E_b>> >>,
      << <<E_a1, E_a2, E_b>> >>,
      << <<E_a1, E_dbl>>, <<E_lead, E_a2>> >>,
      << <<E_a1>>, <<E_a2, E_b>>, <<>> >>,
      << <<E_a1>>, <<E_trail>>, <<E_a2>> >>,
      [i \in 1..MaxPagesBP |-> <<E_a1>>] }

Globs == { NoGlob, <<"a", "*">> }
Adapters == { "az", "sync" }
Bucket == <<"b">>
UriPaths == { <<>>, <<"/", "p", "/">> }

PointerLists(c) ==
    { [i \in 1..n |-> [source |-> c.uri, path |-> <<"a">>, version |-> "v1",
                        origin |-> <<0, i>>]] : n \in 0..MaxPointers }

VARIABLES
    adapter,        \* "az" (AzureClient) or "sync" (an adapter with list pages)
    uri,            \* the URI given to iter_files
    glob,           \* the glob given to iter_files, or NoGlob
    listing,        \* what the store lists under the prefix
    mode,           \* "prefix" (iter_files) or "list" (iter_pointers); in the
                    \* facade specification the entry point, "facade" or "direct"
    pointers,       \* the argument of iter_pointers
    client,         \* the adapter instance: name, uri
    prefix,         \* prefix of _fetch_prefix after normalisation
    close_calls,    \* number of calls of client.close()
    cons,           \* consumer: "pull", "await_main", "done", "error", "closed";
                    \* "not_called", "created" before the pipeline is started
    cons_err,       \* the error raised to the consumer
    delivered,      \* Files yielded to the consumer, in order
    result_queue,   \* asyncio.Queue(200) of iter_files / iter_pointers
    putters,        \* tasks blocked in result_queue.put, in arrival order
    main,           \* main_task: _fetch_prefix or _fetch_list
    gather_res,     \* outcome of the gather of _fetch_prefix
    lp,             \* list producer: _get_pages
    page_queue,     \* asyncio.Queue(2): page numbers, 0 is the None sentinel
    pp,             \* page processor: _process_pages
    tasks,          \* read tasks of the current page or batch
    sem,            \* permits left in Client.max_concurrent_reads
    reads_started,  \* number of entries into the body of _read_file
    reads_done,     \* number of object bodies read from the store
    read_failed,    \* some read has failed
    list_failed,    \* the listing has failed
    survivors,      \* origins of the tasks in flight when a read failed
    first_error,    \* the first error raised in any stage, or "none"
    enqueued,       \* Files put on the result queue, in the order of the puts
    spawned,        \* origins of the read tasks created, in order of creation
    joins,          \* number of gathers of _fetch_list that have returned
    client_config,  \* keys of the client_config given to iter_files
    start_prefix,   \* the start_prefix given to Client.iter_files
    info,           \* a raw S3 listing entry
    file            \* the projection of info by ClientS3.info_to_file

vars == <<adapter, uri, glob, listing, mode, pointers, client, prefix,
          close_calls, cons, cons_err, delivered, result_queue, putters, main,
          gather_res, lp, page_queue, pp, tasks, sem, reads_started,
          reads_done, read_failed, list_failed, survivors, first_error,
          enqueued, spawned, joins, client_config, start_prefix, info, file>>

inputs == <<adapter, uri, glob, listing, mode, pointers, client, prefix,
            client_config, start_prefix, info, file>>

ghost == <<first_error, enqueued, spawned, joins>>

InitPipeline ==
    /\ close_calls = 0
    /\ cons = "pull"
    /\ cons_err = "none"
    /\ delivered = <<>>
    /\ result_queue = <<>>
    /\ putters = <<>>
    /\ gather_res = "pending"
    /\ page_queue = <<>>
    /\ tasks = <<>>
    /\ sem = MaxConcurrentReads
    /\ reads_started = 0
    /\ reads_done = 0
    /\ read_failed = FALSE
    /\ list_failed = FALSE
    /\ survivors = {}
    /\ first_error = "none"
    /\ enqueued = <<>>
    /\ spawned = <<>>
    /\ joins = 0

\* iter_files of __init__.py up to the first pull: get_client, parse_url,
\* path.rstrip("/"), then Client.iter_files creates main_task, which runs
\* _fetch_prefix up to its gather.
InitPrefix ==
    /\ mode = "prefix"
    /\ adapter \in Adapters
    /\ uri \in { PREFIX(adapter) \o Bucket \o p : p \in UriPaths }
    /\ glob \in Globs
    /\ listing \in Listings
    \* by_page() of the Azure SDK always yields a first page
    /\ adapter = "az" => Len(listing) >= 1
    /\ pointers = <<>>
    /\ client = GetClient(adapter, uri)
    /\ client_config = {"loop"}
    /\ start_prefix = RStrip(ParseUrl(adapter, uri)[2], DELIMITER)
    /\ prefix = NormalizePrefix(start_prefix)
    /\ info = NoInfo
    /\ file = NoFile
    /\ main = [pc |-> "gather", exc |-> "none", i |-> 0]
    /\ lp = [pc |-> "fetch", next |-> 1, exc |-> "none"]
    /\ pp = [pc |-> "get", found |-> FALSE, exc |-> "none", page |-> 0,
             pos |-> 0, cancel |-> FALSE]
    /\ InitPipeline

\* iter_pointers up to the first pull: main_task is _fetch_list.
InitList ==
    /\ mode = "list"
    /\ adapter = "az"
    /\ uri = PREFIX(adapter) \o Bucket
    /\ glob = NoGlob
    /\ listing = <<>>
    /\ client = GetClient(adapter, uri)
    /\ pointers \in PointerLists(client)
    /\ client_config = {"loop"}
    /\ start_prefix = <<>>
    /\ prefix = <<>>
    /\ info = NoInfo
    /\ file = NoFile
    /\ main = [pc |-> "spawn", exc |-> "none", i |-> 0]
    /\ lp = [pc |-> "done", next |-> 1, exc |-> "none"]
    /\ pp = [pc |-> "done", found |-> FALSE, exc |-> "none", page |-> 0,
             pos |-> 0, cancel |-> FALSE]
    /\ InitPipeline

Init == InitPrefix \/ InitList

(***************************************************************************)
(* The result queue and the read semaphore.                                *)
(***************************************************************************)
QueueNeverFull(q) == FALSE

\* asyncio.Queue.full() of the result queue
QueueFull(q) == Len(q) >= ResultQueueSize

SemAlwaysFree(s) == TRUE

\* asyncio.Semaphore: a permit is left
SemCanAcquire(s) == s > 0

InFlight(t) == t.st \in {"wait", "read", "put"}

AllDoneNoWait == TRUE

\* asyncio.gather(*tasks) returns: every task of the list has returned
AllDone == \A i \in DOMAIN tasks : tasks[i].st = "done"

\* asyncio.gather(*tasks) raises: a task of the list has failed
SomeFailed == \E i \in DOMAIN tasks : tasks[i].st = "failed"

\* Client._read_file result: the pointer with the bytes of the object
ReadResult(ptr) ==
    [source |-> ptr.source, path |-> ptr.path, version |-> ptr.version,
     origin |-> ptr.origin, contents |-> <<ptr.path, ptr.version>>]

NewTask(ptr) == [st |-> "wait", ptr |-> ptr]

\* the listing places of a sequence of read tasks
Origins(ts) == [k \in 1..Len(ts) |-> ts[k].ptr.origin]

\* an exception is raised in some stage: the first one is remembered
FirstError(e) == IF first_error = "none" THEN e ELSE first_error

(***************************************************************************)
(* Read tasks: queue_task_result(self._read_file(pointer), result_queue).  *)
(***************************************************************************)
\* `async with self.max_concurrent_reads`: waiters are served in order
AcquireRead(i) ==
    /\ tasks[i].st = "wait"
    /\ \A j \in 1..(i - 1) : tasks[j].st # "wait"
    /\ SemCanAcquire(sem)
    /\ sem' = sem - 1
    /\ tasks' = [tasks EXCEPT ![i].st = "read"]
    /\ reads_started' = reads_started + 1
    /\ UNCHANGED <<inputs, ghost, close_calls, cons, cons_err, delivered, result_queue,
                   putters, main, gather_res, lp, page_queue, pp, reads_done,
                   read_failed, list_failed, survivors>>

\* queue_task_result: the task puts the result of the read on the result
\* queue and is done, or blocks in put while the queue is full
QueueTaskResult(i, f) ==
    IF QueueFull(result_queue)
    THEN /\ tasks' = [tasks EXCEPT ![i].st = "put"]
         /\ putters' = Append(putters, <<"task", i>>)
         /\ UNCHANGED <<result_queue, enqueued>>
    ELSE /\ tasks' = [tasks EXCEPT ![i].st = "done"]
         /\ result_queue' = Append(result_queue, f)
         /\ enqueued' = Append(enqueued, f)
         /\ UNCHANGED putters

\* self._read returns: the permit is released and the result is handed on
ReadOk(i) ==
    /\ tasks[i].st = "read"
    /\ sem' = sem + 1
    /\ reads_done' = reads_done + 1
    /\ QueueTaskResult(i, ReadResult(tasks[i].ptr))
    /\ UNCHANGED <<inputs, first_error, spawned, joins, close_calls, cons, cons_err, delivered, main,
                   gather_res, lp, page_queue, pp, reads_started, read_failed,
                   list_failed, survivors>>

\* self._read raises: the permit is released and the task fails
ReadFail(i) ==
    /\ tasks[i].st = "read"
    /\ sem' = sem + 1
    /\ tasks' = [tasks EXCEPT ![i].st = "failed"]
    /\ read_failed' = TRUE
    /\ first_error' = FirstError("ReadError")
    /\ survivors' = survivors \cup
          { tasks[j].ptr.origin : j \in { k \in DOMAIN tasks : k # i /\ InFlight(tasks[k]) } }
    /\ UNCHANGED <<inputs, enqueued, spawned, joins, close_calls, cons, cons_err, delivered, result_queue,
                   putters, main, gather_res, lp, page_queue, pp, reads_started,
                   reads_done, list_failed>>

\* a read task blocked in put is woken and puts its File
TaskPutWake(i) ==
    /\ tasks[i].st = "put"
    /\ putters # <<>> /\ Head(putters) = <<"task", i>>
    /\ ~QueueFull(result_queue)
    /\ result_queue' = Append(result_queue, ReadResult(tasks[i].ptr))
    /\ enqueued' = Append(enqueued, ReadResult(tasks[i].ptr))
    /\ putters' = Tail(putters)
    /\ tasks' = [tasks EXCEPT ![i].st = "done"]
    /\ UNCHANGED <<inputs, first_error, spawned, joins, close_calls, cons, cons_err, delivered, main,
                   gather_res, lp, page_queue, pp, sem, reads_started,
                   reads_done, read_failed, list_failed, survivors>>


hist == <<reads_started, reads_done, read_failed, list_failed, survivors>>
consv == <<close_calls, cons, cons_err, delivered>>

(***************************************************************************)
(* The gather of _fetch_prefix over the list producer and the page         *)
(* processor: it fails with the exception of the first child that fails    *)
(* and succeeds when both children have returned.                          *)
(***************************************************************************)
GatherAfter(res, child_exc, other_ok) ==
    IF res # "pending" THEN res
    ELSE IF child_exc # "none" THEN child_exc
    ELSE IF other_ok THEN "ok"
    ELSE "pending"

(***************************************************************************)
(* List producer: AzureClient._get_pages.                                  *)
(***************************************************************************)
PageQueueFull == Len(page_queue) >= PageQueueSize

\* the finally block: put the None sentinel on the page queue, then return
\* or re-raise
LPFinally(exc) ==
    IF PageQueueFull
    THEN /\ lp' = [lp EXCEPT !.pc = "finally", !.exc = exc]
         /\ UNCHANGED <<page_queue, gather_res>>
    ELSE /\ lp' = [lp EXCEPT !.pc = "done", !.exc = exc]
         /\ page_queue' = Append(page_queue, 0)
         /\ gather_res' = GatherAfter(gather_res, exc,
                                      pp.pc = "done" /\ pp.exc = "none")

\* by_page() yields the next page, which is put on the page queue (the task
\* blocks in put when the queue is full)
LPFetch ==
    /\ lp.pc = "fetch"
    /\ lp.next <= Len(listing)
    /\ IF PageQueueFull
       THEN /\ lp' = [lp EXCEPT !.pc = "put"]
            /\ UNCHANGED page_queue
       ELSE /\ lp' = [lp EXCEPT !.next = lp.next + 1]
            /\ page_queue' = Append(page_queue, lp.next)
    /\ UNCHANGED <<inputs, ghost, consv, result_queue, putters, main, gather_res, pp,
                   tasks, sem, hist>>

LPPutWake ==
    /\ lp.pc = "put"
    /\ ~PageQueueFull
    /\ lp' = [lp EXCEPT !.pc = "fetch", !.next = lp.next + 1]
    /\ page_queue' = Append(page_queue, lp.next)
    /\ UNCHANGED <<inputs, ghost, consv, result_queue, putters, main, gather_res, pp,
                   tasks, sem, hist>>

\* by_page() is exhausted
LPExhausted ==
    /\ lp.pc = "fetch"
    /\ lp.next > Len(listing)
    /\ LPFinally("none")
    /\ UNCHANGED <<inputs, ghost, consv, result_queue, putters, main, pp, tasks, sem,
                   hist>>

\* the listing request raises
LPFail ==
    /\ lp.pc = "fetch"
    /\ LPFinally("ListingError")
    /\ list_failed' = TRUE
    /\ first_error' = FirstError("ListingError")
    /\ UNCHANGED <<inputs, enqueued, spawned, joins, consv, result_queue, putters, main, pp, tasks, sem,
                   reads_started, reads_done, read_failed, survivors>>

LPFinallyWake ==
    /\ lp.pc = "finally"
    /\ ~PageQueueFull
    /\ LPFinally(lp.exc)
    /\ UNCHANGED <<inputs, ghost, consv, result_queue, putters, main, pp, tasks, sem,
                   hist>>

(***************************************************************************)
(* Page processor: Client._process_pages, Client._process_page and         *)
(* AzureClient._process_page_async.                                        *)
(***************************************************************************)
\* `if page:` -- a list is true when it has an entry; the async iterable of
\* the Azure adapter defines neither __bool__ nor __len__ and is always true
PageTruthy(page) == adapter = "az" \/ Len(page) > 0

ProcessPageDropLast(pno, page, glob_match) ==
    LET Keep(i) == ShouldRead(page[i], glob_match) /\ i < Len(page)
        idxs == SelectSeq([i \in 1..Len(page) |-> i], Keep)
    IN [k \in 1..Len(idxs) |->
          NewTask(SyncInfoToFilePointer(client, page[idxs[k]], <<pno, idxs[k]>>))]

\* Client._process_page: one read task per entry that passes _should_read
ProcessPage(pno, page, glob_match) ==
    LET Keep(i) == ShouldRead(page[i], glob_match)
        idxs == SelectSeq([i \in 1..Len(page) |-> i], Keep)
    IN [k \in 1..Len(idxs) |->
          NewTask(SyncInfoToFilePointer(client, page[idxs[k]], <<pno, idxs[k]>>))]

NextPosLast(page, from, glob_match) ==
    IF \E k \in from..Len(page) : ShouldRead(page[k], glob_match)
    THEN CHOOSE k \in from..Len(page) :
            /\ ShouldRead(page[k], glob_match)
            /\ \A j \in (k + 1)..Len(page) : ~ShouldRead(page[j], glob_match)
    ELSE Len(page) + 1

\* the next entry at or after `from` that passes _should_read
NextPos(page, from, glob_match) ==
    IF \E k \in from..Len(page) : ShouldRead(page[k], glob_match)
    THEN CHOOSE k \in from..Len(page) :
            /\ ShouldRead(page[k], glob_match)
            /\ \A j \in from..(k - 1) : ~ShouldRead(page[j], glob_match)
    ELSE Len(page) + 1

\* the finally block of _process_pages: put the None sentinel on the result
\* queue (blocking when it is full), then return or re-raise
PPFinally(p, exc) ==
    IF QueueFull(result_queue)
    THEN /\ pp' = [p EXCEPT !.pc = "put_final", !.exc = exc]
         /\ putters' = Append(putters, <<"pp", 0>>)
         /\ UNCHANGED <<result_queue, gather_res>>
    ELSE /\ pp' = [p EXCEPT !.pc = "done", !.exc = exc]
         /\ result_queue' = Append(result_queue, NoneItem)
         /\ gather_res' = GatherAfter(gather_res, exc,
                                      lp.pc = "done" /\ lp.exc = "none")
         /\ UNCHANGED putters

\* page_queue.get() returns a page
PPGetPage ==
    /\ pp.pc = "get" /\ ~pp.cancel
    /\ page_queue # <<>> /\ Head(page_queue) # 0
    /\ LET pno == Head(page_queue)
           page == listing[pno]
           glob_match == GetGlobMatch(glob)
           found == pp.found \/ PageTruthy(page)
       IN /\ page_queue' = Tail(page_queue)
          /\ IF adapter = "az"
             THEN LET pos == NextPos(page, 1, glob_match)
                  IN /\ pp' = [pp EXCEPT !.found = found, !.page = pno, !.pos = pos,
                                  !.pc = IF pos > Len(page) THEN "gather"
                                         ELSE "page_async"]
                     /\ tasks' = <<>>
                     /\ UNCHANGED spawned
             ELSE /\ pp' = [pp EXCEPT !.found = found, !.page = pno,
                               !.pc = "gather"]
                  /\ tasks' = ProcessPage(pno, page, glob_match)
                  /\ spawned' = spawned \o Origins(tasks')
    /\ UNCHANGED <<inputs, first_error, enqueued, joins, consv, result_queue, putters, main, gather_res, lp,
                   sem, hist>>

\* page_queue.get() returns the None sentinel: NotFound unless found
PPGetSentinel ==
    /\ pp.pc = "get" /\ ~pp.cancel
    /\ page_queue # <<>> /\ Head(page_queue) = 0
    /\ page_queue' = Tail(page_queue)
    /\ PPFinally(pp, IF pp.found THEN "none" ELSE "NotFound")
    /\ first_error' = IF pp.found THEN first_error ELSE FirstError("NotFound")
    /\ UNCHANGED <<inputs, enqueued, spawned, joins, consv, main, lp, tasks, sem, hist>>

\* _process_page_async: fs._details of the entry returns, its read task is
\* spawned and the iteration goes on to the next entry to read
PPDetails ==
    /\ pp.pc = "page_async" /\ ~pp.cancel
    /\ LET page == listing[pp.page]
           b == page[pp.pos]
           v == Details(client, b)
           pos == NextPos(page, pp.pos + 1, GetGlobMatch(glob))
       IN /\ tasks' = Append(tasks,
                NewTask(AzureInfoToFilePointer(client, v, <<pp.page, pp.pos>>)))
          /\ spawned' = Append(spawned, <<pp.page, pp.pos>>)
          /\ pp' = [pp EXCEPT !.pos = pos,
                       !.pc = IF pos > Len(page) THEN "gather" ELSE "page_async"]
    /\ UNCHANGED <<inputs, first_error, enqueued, joins, consv, result_queue, putters, main, gather_res, lp,
                   page_queue, sem, hist>>

\* _process_page_async: fs._details raises
PPDetailsFail ==
    /\ pp.pc = "page_async" /\ ~pp.cancel
    /\ PPFinally(pp, "DetailsError")
    /\ first_error' = FirstError("DetailsError")
    /\ UNCHANGED <<inputs, enqueued, spawned, joins, consv, main, lp, page_queue, tasks, sem, hist>>

PPGatherDoneEarly ==
    /\ pp.pc = "gather" /\ ~pp.cancel
    /\ pp' = [pp EXCEPT !.pc = "get"]
    /\ tasks' = <<>>
    /\ UNCHANGED <<inputs, ghost, consv, result_queue, putters, main, gather_res, lp,
                   page_queue, sem, hist>>

\* `await asyncio.gather(*tasks)` returns: every read task of the page is done
PPGatherDone ==
    /\ pp.pc = "gather" /\ ~pp.cancel
    /\ AllDone
    /\ pp' = [pp EXCEPT !.pc = "get"]
    /\ tasks' = <<>>
    /\ UNCHANGED <<inputs, ghost, consv, result_queue, putters, main, gather_res, lp,
                   page_queue, sem, hist>>

\* `await asyncio.gather(*tasks)` raises: a read task of the page has failed;
\* the other read tasks are left running
PPGatherRaise ==
    /\ pp.pc = "gather" /\ ~pp.cancel
    /\ SomeFailed
    /\ PPFinally(pp, "ReadError")
    /\ UNCHANGED <<inputs, ghost, consv, main, lp, page_queue, tasks, sem, hist>>

\* the page processor, blocked in the put of its finally block, is woken
PPPutWake ==
    /\ pp.pc = "put_final" /\ ~pp.cancel
    /\ putters # <<>> /\ Head(putters) = <<"pp", 0>>
    /\ ~QueueFull(result_queue)
    /\ pp' = [pp EXCEPT !.pc = "done"]
    /\ result_queue' = Append(result_queue, NoneItem)
    /\ putters' = Tail(putters)
    /\ gather_res' = GatherAfter(gather_res, pp.exc,
                                 lp.pc = "done" /\ lp.exc = "none")
    /\ UNCHANGED <<inputs, ghost, consv, main, lp, page_queue, tasks, sem, hist>>

NotPP(w) == w # <<"pp", 0>>

\* CancelledError is thrown into the page processor: where it was awaiting
\* in the loop, the finally block runs; where it was blocked in the put of
\* the finally block, it ends without the sentinel
PPCancelled ==
    /\ pp.cancel
    /\ pp.pc \in {"get", "page_async", "gather", "put_final"}
    /\ IF pp.pc = "put_final"
       THEN /\ pp' = [pp EXCEPT !.pc = "done", !.exc = "Cancelled", !.cancel = FALSE]
            /\ putters' = SelectSeq(putters, NotPP)
            /\ UNCHANGED <<result_queue, gather_res>>
       ELSE PPFinally([pp EXCEPT !.cancel = FALSE], "Cancelled")
    /\ UNCHANGED <<inputs, ghost, consv, main, lp, page_queue, tasks, sem, hist>>


(***************************************************************************)
(* main_task in prefix mode: Client._fetch_prefix.                         *)
(***************************************************************************)
NotTask(w) == w[1] # "task"

\* Task.cancel() on a task that awaits a gather cancels the gather, which
\* cancels every child that is not done; a cancelled read task leaves the
\* semaphore and the putters of the result queue and enqueues nothing
CancelTasks(ts) ==
    [i \in DOMAIN ts |->
        IF InFlight(ts[i]) THEN [ts[i] EXCEPT !.st = "cancelled"] ELSE ts[i]]

HoldingNone(ts) == 0

\* the permits that the tasks inside `async with self.max_concurrent_reads`
\* give back when they leave it
Holding(ts) == Cardinality({ i \in DOMAIN ts : ts[i].st = "read" })

\* the gather of the list producer and the page processor has an outcome:
\* `finally: page_consumer.cancel()`, then `finally: await
\* result_queue.put(None)`, then return or re-raise
MainGatherResolved ==
    /\ mode = "prefix"
    /\ main.pc = "gather"
    /\ gather_res # "pending"
    /\ LET exc == IF gather_res = "ok" THEN "none" ELSE gather_res
           cancelling == pp.pc # "done"
           kill == cancelling /\ pp.pc = "gather"
           putters1 == IF kill THEN SelectSeq(putters, NotTask) ELSE putters
       IN /\ pp' = [pp EXCEPT !.cancel = cancelling]
          /\ tasks' = IF kill THEN CancelTasks(tasks) ELSE tasks
          /\ sem' = IF kill THEN sem + Holding(tasks) ELSE sem
          /\ IF QueueFull(result_queue)
             THEN /\ main' = [main EXCEPT !.pc = "put_final", !.exc = exc]
                  /\ putters' = Append(putters1, <<"main", 0>>)
                  /\ UNCHANGED result_queue
             ELSE /\ main' = [main EXCEPT !.pc = "done", !.exc = exc]
                  /\ putters' = putters1
                  /\ result_queue' = Append(result_queue, NoneItem)
    /\ UNCHANGED <<inputs, ghost, consv, gather_res, lp, page_queue, hist>>

\* main_task, blocked in the put of a sentinel, is woken
MainPutWake ==
    /\ main.pc = "put_final"
    /\ putters # <<>> /\ Head(putters) = <<"main", 0>>
    /\ ~QueueFull(result_queue)
    /\ main' = [main EXCEPT !.pc = "done"]
    /\ result_queue' = Append(result_queue, NoneItem)
    /\ putters' = Tail(putters)
    /\ UNCHANGED <<inputs, ghost, consv, gather_res, lp, page_queue, pp, tasks, sem,
                   hist>>

(***************************************************************************)
(* main_task in pointer-list mode: Client._fetch_list.                     *)
(***************************************************************************)
NextJoinNever(i, n) == n

\* the 0-based index at which the loop that starts at index i next awaits:
\* the first index j >= i with j % 5000 == 0, or the length n when the loop
\* reaches the end of the list first
NextJoin(i, n) ==
    IF \E j \in i..(n - 1) : j % BatchSize = 0
    THEN CHOOSE j \in i..(n - 1) :
            j % BatchSize = 0 /\ \A k \in i..(j - 1) : k % BatchSize # 0
    ELSE n

\* the loop spawns read tasks without suspending up to its next gather
MainSpawn ==
    /\ mode = "list"
    /\ main.pc = "spawn"
    /\ LET n == Len(pointers)
           j == NextJoin(main.i, n)
           last == IF j < n THEN j ELSE n - 1
           new == [k \in 1..(last - main.i + 1) |-> NewTask(pointers[main.i + k])]
       IN /\ tasks' = tasks \o new
          /\ spawned' = spawned \o Origins(new)
          /\ main' = [main EXCEPT !.pc = IF j < n THEN "join" ELSE "final_join",
                                  !.i = last + 1]
    /\ UNCHANGED <<inputs, first_error, enqueued, joins, consv, result_queue, putters, gather_res, lp,
                   page_queue, pp, sem, hist>>

\* `await asyncio.gather(*tasks)` inside the loop returns
MainJoin ==
    /\ main.pc = "join"
    /\ AllDone
    /\ tasks' = <<>>
    /\ joins' = joins + 1
    /\ main' = [main EXCEPT !.pc = "spawn"]
    /\ UNCHANGED <<inputs, first_error, enqueued, spawned, consv, result_queue, putters, gather_res, lp,
                   page_queue, pp, sem, hist>>

\* a gather of _fetch_list raises: main_task ends with the error of the read
MainJoinRaise ==
    /\ main.pc \in {"join", "final_join"}
    /\ SomeFailed
    /\ main' = [main EXCEPT !.pc = "done", !.exc = "ReadError"]
    /\ UNCHANGED <<inputs, ghost, consv, result_queue, putters, gather_res, lp,
                   page_queue, pp, tasks, sem, hist>>

\* the gather after the loop returns: `await result_queue.put(None)`
MainFinalJoin ==
    /\ main.pc = "final_join"
    /\ AllDone
    /\ tasks' = <<>>
    /\ IF QueueFull(result_queue)
       THEN /\ main' = [main EXCEPT !.pc = "put_final"]
            /\ putters' = Append(putters, <<"main", 0>>)
            /\ UNCHANGED result_queue
       ELSE /\ main' = [main EXCEPT !.pc = "done"]
            /\ result_queue' = Append(result_queue, NoneItem)
            /\ UNCHANGED putters
    /\ joins' = joins + 1
    /\ UNCHANGED <<inputs, first_error, enqueued, spawned, consv, gather_res, lp, page_queue, pp, sem, hist>>

(***************************************************************************)
(* The consumer: the generator of iter_files / iter_files_async around     *)
(* Client.iter_files, inside `with Client.get_client(...) as client`.      *)
(***************************************************************************)
ClientExitNotOnClose(how, n) == IF how = "closed" THEN n ELSE n + 1

\* Client.__exit__: self.close()
ClientExit(how, n) == n + 1

ConsGetFileNewest ==
    /\ cons = "pull"
    /\ result_queue # <<>> /\ result_queue[Len(result_queue)] # NoneItem
    /\ delivered' = Append(delivered, result_queue[Len(result_queue)])
    /\ result_queue' = SubSeq(result_queue, 1, Len(result_queue) - 1)
    /\ UNCHANGED <<inputs, ghost, close_calls, cons, cons_err, putters, main,
                   gather_res, lp, page_queue, pp, tasks, sem, hist>>

\* result_queue.get() returns a File, which is yielded
ConsGetFile ==
    /\ cons = "pull"
    /\ result_queue # <<>> /\ Head(result_queue) # NoneItem
    /\ delivered' = Append(delivered, Head(result_queue))
    /\ result_queue' = Tail(result_queue)
    /\ UNCHANGED <<inputs, ghost, close_calls, cons, cons_err, putters, main,
                   gather_res, lp, page_queue, pp, tasks, sem, hist>>

\* result_queue.get() returns None: the loop ends, `await main_task`
ConsGetNone ==
    /\ cons = "pull"
    /\ result_queue # <<>> /\ Head(result_queue) = NoneItem
    /\ cons' = "await_main"
    /\ result_queue' = Tail(result_queue)
    /\ UNCHANGED <<inputs, ghost, close_calls, cons_err, delivered, putters, main,
                   gather_res, lp, page_queue, pp, tasks, sem, hist>>

\* `await main_task` returns or raises; the with block is left
ConsAwaitMain ==
    /\ cons = "await_main"
    /\ main.pc = "done"
    /\ cons' = IF main.exc = "none" THEN "done" ELSE "error"
    /\ cons_err' = main.exc
    /\ close_calls' = ClientExit(cons', close_calls)
    /\ UNCHANGED <<inputs, ghost, delivered, result_queue, putters, main, gather_res,
                   lp, page_queue, pp, tasks, sem, hist>>

\* the consumer closes the iterator at a yield: GeneratorExit leaves the
\* with block; nothing in Client.iter_files cancels main_task
ConsClose ==
    /\ cons = "pull"
    /\ Len(delivered) > 0
    /\ cons' = "closed"
    /\ close_calls' = ClientExit(cons', close_calls)
    /\ UNCHANGED <<inputs, ghost, cons_err, delivered, result_queue, putters, main,
                   gather_res, lp, page_queue, pp, tasks, sem, hist>>

(***************************************************************************)
(* Specification.                                                          *)
(***************************************************************************)
ReadTasks ==
    \E i \in DOMAIN tasks :
        AcquireRead(i) \/ ReadOk(i) \/ ReadFail(i) \/ TaskPutWake(i)

ListProducer == LPFetch \/ LPPutWake \/ LPExhausted \/ LPFail \/ LPFinallyWake

PageProcessor ==
    \/ PPGetPage \/ PPGetSentinel \/ PPDetails \/ PPDetailsFail
    \/ PPGatherDone \/ PPGatherRaise \/ PPPutWake \/ PPCancelled

MainTask ==
    \/ MainGatherResolved \/ MainPutWake
    \/ MainSpawn \/ MainJoin \/ MainJoinRaise \/ MainFinalJoin

Consumer == ConsGetFile \/ ConsGetNone \/ ConsAwaitMain

\* every step but the consumer giving up
Progress == ReadTasks \/ ListProducer \/ PageProcessor \/ MainTask \/ Consumer

Next == Progress \/ ConsClose

Spec == Init /\ [][Next]_vars

\* nothing can move any more unless the consumer closes the iterator
Quiescent == ~ENABLED Progress

\* no task of the pipeline can move unless the consumer pulls
PipelineQuiescent ==
    ~ENABLED (ReadTasks \/ ListProducer \/ PageProcessor \/ MainTask)

\* no read, listing request or detail request has failed
NoFailure == ~read_failed /\ ~list_failed /\ pp.exc # "DetailsError"

TypeOK ==
    /\ cons \in {"pull", "await_main", "done", "error", "closed"}
    /\ sem \in 0..MaxConcurrentReads
    /\ Len(result_queue) <= ResultQueueSize
    /\ Len(page_queue) <= PageQueueSize


(***************************************************************************)
(* The facade: iter_files of __init__.py from the call to the hand-over to *)
(* Client.iter_files -- get_client, get_implementation, parse_url, the     *)
(* prefix normalisation of _fetch_prefix -- and the S3 projection          *)
(* ClientS3.info_to_file.                                                  *)
(***************************************************************************)
NoClient == [name |-> <<>>, uri |-> <<>>]

\* str.lower on the letters used in the schemes
Lower(c) ==
    IF c = "A" THEN "a" ELSE IF c = "Z" THEN "z" ELSE IF c = "S" THEN "s" ELSE c

LowerStr(s) == [i \in 1..Len(s) |-> Lower(s[i])]

IsAlpha(c) == c \in {"a", "z", "s", "g", "f", "t", "p", "b", "q", "A", "Z", "S"}
IsSchemeChar(c) == IsAlpha(c) \/ c \in {"3", "+", "-", "."}

\* urlparse(url).scheme: the text before the first ':' in lower case when it
\* starts with a letter and is made of scheme characters, else ''
UrlParseScheme(url) ==
    IF \E i \in 1..Len(url) : url[i] = ":"
    THEN LET i == CHOOSE k \in 1..Len(url) :
                      url[k] = ":" /\ \A j \in 1..(k - 1) : url[j] # ":"
         IN IF i > 1 /\ IsAlpha(url[1])
                 /\ \A j \in 1..(i - 1) : IsSchemeChar(url[j])
            THEN LowerStr(SubSeq(url, 1, i - 1))
            ELSE <<>>
    ELSE <<>>

\* Client.get_implementation: the adapter class of the scheme ("sync" is the
\* GCS adapter), or NotImplementedError
GetImplementation(url) ==
    LET protocol == UrlParseScheme(url)
    IN IF protocol = <<>> THEN "NotImplementedError"
       ELSE IF protocol = <<"s", "3">> THEN "s3"
       ELSE IF protocol = <<"g", "s">> THEN "sync"
       ELSE IF protocol = <<"a", "z">> THEN "az"
       ELSE "NotImplementedError"

\* `Client.get_client(uri, **client_config)`: binding the call to
\* get_client(source, loop, **kwargs) fails without a "loop" key; then
\* get_implementation; then cls(name, loop, kwargs), which fails for
\* ClientS3, a class with abstract methods left
GetClientOutcome(url, config) ==
    IF "loop" \notin config THEN "TypeError"
    ELSE LET cls == GetImplementation(url)
         IN IF cls = "NotImplementedError" THEN "NotImplementedError"
            ELSE IF cls = "s3" THEN "TypeError"
            ELSE cls

PyNone == [t |-> "NoneType", v |-> ""]
PyStr(x) == [t |-> "str", v |-> x]

CleanS3VersionNoneOnly(ver) == IF ver = PyNone THEN "" ELSE ver.v

\* ClientS3._clean_s3_version
CleanS3Version(ver) ==
    IF ver = PyNone \/ ver = PyStr("null") THEN "" ELSE ver.v

\* v.get("VersionId", "")
DictGetVersionId(v) == IF v.has_version THEN v.VersionId ELSE PyStr("")

\* ClientS3.info_to_file
InfoToFile(c, v) ==
    [source |-> c.uri, path |-> v.Key,
     version |-> CleanS3Version(DictGetVersionId(v))]

SchemeTexts ==
    { <<"s", "3", ":", "/", "/">>, <<"S", "3", ":", "/", "/">>,
      <<"g", "s", ":", "/", "/">>, <<"a", "z", ":", "/", "/">>,
      <<"A", "Z", ":", "/", "/">>, <<"f", "t", "p", ":", "/", "/">>,
      <<"3", "s", ":", "/", "/">>, <<>> }

FacadePaths ==
    { <<>>, <<"/">>, <<"/", "p">>, <<"/", "p", "/">>, <<"/", "p", "/", "/">>,
      <<"/", "/", "p">>, <<"/", "p", "/", "q">> }

FacadeUris == { sch \o Bucket \o pa : sch \in SchemeTexts, pa \in FacadePaths }

\* the start_prefix arguments of a direct call of Client.iter_files
StartPrefixes ==
    { <<>>, <<"p">>, <<"/", "p">>, <<"p", "/">>, <<"/">>, <<"/", "/", "p">>,
      <<"p", "/", "q", "/">> }

VersionTexts == {"null", "", "v1", "Null", "null1", "v2"}

\* the values of VersionId: None or a string
S3Versions == { PyNone } \cup { PyStr(x) : x \in VersionTexts }

S3Infos ==
    { [Key |-> <<"a">>, has_version |-> TRUE, VersionId |-> ver] : ver \in S3Versions }
      \cup { [Key |-> <<"a">>, has_version |-> FALSE, VersionId |-> PyNone] }

\* nothing of the pipeline exists before Client.iter_files is called
FacadeInit ==
    /\ mode \in {"facade", "direct"}
    /\ uri \in FacadeUris
    /\ client_config \in { {}, {"loop"} }
    /\ info \in S3Infos
    /\ file = NoFile
    /\ adapter = "none"
    /\ client = NoClient
    /\ start_prefix = <<>>
    /\ prefix = <<>>
    /\ glob = NoGlob
    /\ listing = <<>>
    /\ pointers = <<>>
    /\ cons = "not_called"
    /\ cons_err = "none"
    /\ close_calls = 0
    /\ delivered = <<>>
    /\ result_queue = <<>>
    /\ putters = <<>>
    /\ main = [pc |-> "none", exc |-> "none", i |-> 0]
    /\ gather_res = "pending"
    /\ lp = [pc |-> "none", next |-> 1, exc |-> "none"]
    /\ page_queue = <<>>
    /\ pp = [pc |-> "none", found |-> FALSE, exc |-> "none", page |-> 0,
             pos |-> 0, cancel |-> FALSE]
    /\ tasks = <<>>
    /\ sem = MaxConcurrentReads
    /\ reads_started = 0
    /\ reads_done = 0
    /\ read_failed = FALSE
    /\ list_failed = FALSE
    /\ survivors = {}
    /\ first_error = "none"
    /\ enqueued = <<>>
    /\ spawned = <<>>
    /\ joins = 0

pipeline == <<delivered, result_queue, putters, main, gather_res, lp,
              page_queue, pp, tasks, sem, hist, ghost>>

\* iter_files(uri, glob, client_config) is called: a generator function
\* returns its generator and runs nothing of its body
IterFilesCall ==
    /\ mode = "facade"
    /\ cons = "not_called"
    /\ cons' = "created"
    /\ UNCHANGED <<inputs, pipeline, cons_err, close_calls>>

\* the first next() on the generator: `with Client.get_client(uri,
\* **client_config) as client`, client.parse_url(uri), then
\* client.iter_files(path.rstrip("/"), glob) up to the prefix normalisation
\* of _fetch_prefix; an exception of get_client leaves the generator before
\* the with block is entered
IterFilesFirstNext ==
    /\ mode = "facade"
    /\ cons = "created"
    /\ LET cls == GetClientOutcome(uri, client_config)
       IN IF cls \in {"TypeError", "NotImplementedError"}
          THEN /\ cons' = "error"
               /\ cons_err' = cls
               /\ UNCHANGED <<adapter, client, start_prefix, prefix>>
          ELSE /\ cons' = "pull"
               /\ adapter' = cls
               /\ client' = GetClient(cls, uri)
               /\ start_prefix' = RStrip(ParseUrl(cls, uri)[2], DELIMITER)
               /\ prefix' = NormalizePrefix(start_prefix')
               /\ UNCHANGED cons_err
    /\ UNCHANGED <<uri, glob, listing, mode, pointers, client_config, info, file,
                   pipeline, close_calls>>

\* Client.get_client(uri, loop) and client.iter_files(start_prefix) called
\* without the facade, up to the prefix normalisation of _fetch_prefix
ClientIterFiles ==
    /\ mode = "direct"
    /\ cons = "not_called"
    /\ "loop" \in client_config
    /\ GetClientOutcome(uri, client_config) \in {"az", "sync"}
    /\ \E sp \in StartPrefixes :
          /\ start_prefix' = sp
          /\ prefix' = NormalizePrefix(sp)
    /\ adapter' = GetClientOutcome(uri, client_config)
    /\ client' = GetClient(adapter', uri)
    /\ cons' = "pull"
    /\ UNCHANGED <<uri, glob, listing, mode, pointers, client_config, info, file,
                   pipeline, cons_err, close_calls>>

\* ClientS3.info_to_file projects a listing entry
S3InfoToFile ==
    /\ file = NoFile
    /\ file' = InfoToFile([name |-> Bucket, uri |-> GetUri("s3", Bucket)], info)
    /\ UNCHANGED <<adapter, uri, glob, listing, mode, pointers, client, prefix,
                   client_config, start_prefix, info, pipeline, consv>>

FacadeNext == IterFilesCall \/ IterFilesFirstNext \/ ClientIterFiles \/ S3InfoToFile

FacadeSpec == FacadeInit /\ [][FacadeNext]_vars


(***************************************************************************)
(* Properties.                                                             *)
(***************************************************************************)
RECURSIVE SeqToBag(_)
SeqToBag(q) ==
    IF q = <<>> THEN EmptyBag ELSE SetToBag({Head(q)}) (+) SeqToBag(Tail(q))

RECURSIVE Flatten(_)
Flatten(pages) ==
    IF pages = <<>> THEN <<>> ELSE Head(pages) \o Flatten(Tail(pages))

Pair(path, version) == <<path, version>>

KeyLooksValid(key) ==
    /\ Len(key) > 0 => (key[1] # "/" /\ key[Len(key)] # "/")
    /\ \A i \in 1..(Len(key) - 1) : ~(key[i] = "/" /\ key[i + 1] = "/")

GlobAccepts(key) == glob = NoGlob \/ FnMatch(glob, key)

Filtered(d) == KeyLooksValid(d.name) /\ GlobAccepts(d.name)

PipelineIdle ==
    /\ main.pc = "done" /\ pp.pc = "done" /\ lp.pc = "done"
    /\ \A i \in DOMAIN tasks : ~InFlight(tasks[i])

\* the longest page of the listing
PageSize ==
    IF listing = <<>> THEN 0
    ELSE LET lens == { Len(listing[k]) : k \in 1..Len(listing) }
         IN CHOOSE m \in lens : \A l \in lens : l <= m

C2_DeliveredEqualsFiltered ==
    (mode = "prefix" /\ cons = "done" /\ ~read_failed /\ ~list_failed) =>
        LET got == [n \in 1..Len(delivered) |->
                       Pair(delivered[n].path, delivered[n].version)]
            all == Flatten(listing)
            want == SelectSeq([k \in 1..Len(all) |-> all[k]], Filtered)
        IN SeqToBag(got) =
              SeqToBag([k \in 1..Len(want) |-> Pair(want[k].name, want[k].version)])

C2_Witness ==
    /\ mode = "prefix" /\ cons = "done"
    /\ Len(listing) = 2
    /\ Len(delivered) = 2
    /\ delivered[1].path = delivered[2].path
    /\ delivered[1].version # delivered[2].version
    /\ Len(Flatten(listing)) > 2

\* C3: at every moment, in prefix mode and in pointer-list mode, at most
\* MaxConcurrentReads read tasks are inside the body of _read_file.
C3_ReadsBounded == Holding(tasks) <= MaxConcurrentReads

C3_Witness ==
    /\ Holding(tasks) = MaxConcurrentReads
    /\ \E i \in DOMAIN tasks : tasks[i].st = "wait"

\* C4: in prefix mode the number of object bodies read from the store never
\* exceeds the number of Files the consumer has pulled plus the capacity of
\* the result queue plus the width of the read semaphore plus twice the
\* page size.
C4_BackPressure ==
    mode = "prefix" =>
        reads_done <= Len(delivered) + ResultQueueSize + MaxConcurrentReads
                        + 2 * PageSize

\* the consumer has stopped pulling and the pipeline has come to rest with
\* the result queue full, a read task blocked behind it and pages unlisted
C4_Witness ==
    /\ mode = "prefix" /\ cons = "pull"
    /\ PipelineQuiescent
    /\ Len(result_queue) = ResultQueueSize
    /\ \E i \in DOMAIN tasks : tasks[i].st = "put"
    /\ lp.pc = "put"
    /\ reads_done > Len(delivered) + ResultQueueSize

\* C5: in prefix mode, when the page stream was drained and nothing else
\* failed, the consumer gets NotFound exactly when no page contained an
\* entry; otherwise the iteration ends normally.
C5_NotFoundIffNoEntry ==
    (/\ mode = "prefix" /\ cons \in {"done", "error"}
     /\ ~read_failed /\ ~list_failed /\ cons_err \in {"none", "NotFound"}) =>
        ((cons = "error" /\ cons_err = "NotFound") <=> Flatten(listing) = <<>>)

\* C6: once the consumer has closed the iterator before exhaustion, the
\* pipeline comes to rest with the page processor, the list producer and
\* every read task ended: none is left running or blocked.
C6_AbandonCancelsPipeline ==
    (mode = "prefix" /\ NoFailure /\ cons = "closed" /\ Quiescent) => PipelineIdle

\* C7: client.close() is called exactly once on every way out of the
\* iteration -- normal end, error, the consumer closing the iterator -- and
\* not before.
C7_CloseExactlyOnce ==
    /\ close_calls <= 1
    /\ cons \in {"done", "error", "closed"} => close_calls = 1
    /\ cons \in {"pull", "await_main"} => close_calls = 0

C7_Witness ==
    /\ cons = "closed" /\ close_calls = 1
    /\ main.pc # "done"
    /\ \E i \in DOMAIN tasks : InFlight(tasks[i])

\* C8: in prefix mode, when a read has failed and the consumer keeps
\* pulling, the run ends with an error raised to the consumer: it does not
\* end normally and does not hang.
C8_ReadFailureSurfaces ==
    (/\ mode = "prefix" /\ read_failed /\ ~list_failed
     /\ pp.exc # "DetailsError" /\ cons # "closed" /\ Quiescent) =>
        (cons = "error" /\ cons_err = "ReadError")

\* C9: in prefix mode, with a consumer that keeps pulling, every read task
\* that was in flight when another read failed, and did not fail itself,
\* completes and its File is delivered.
C9_OtherReadsDelivered ==
    (/\ mode = "prefix" /\ ~list_failed /\ pp.exc # "DetailsError"
     /\ cons # "closed" /\ Quiescent) =>
        \A i \in DOMAIN tasks :
            (tasks[i].ptr.origin \in survivors /\ tasks[i].st # "failed") =>
                \E n \in 1..Len(delivered) :
                    delivered[n].origin = tasks[i].ptr.origin

\* C10: in prefix mode, after an error in the list producer or in the page
\* processor, the run comes to rest with the other stage and the read tasks
\* ended and with the error raised to the consumer.
C10_ErrorCancelsPeers ==
    (/\ mode = "prefix" /\ cons # "closed" /\ Quiescent /\ ~read_failed
     /\ (list_failed \/ pp.exc \in {"NotFound", "DetailsError"})) =>
        (PipelineIdle /\ cons = "error")

\* C11: in prefix mode, when the consumer is given an error, it is the
\* first error that was raised in any stage of the run (list producer, page
\* processor, read tasks).
C11_FirstErrorWins ==
    (mode = "prefix" /\ cons = "error") => cons_err = first_error

\* listing place a comes before listing place b
Before(a, b) == a[1] < b[1] \/ (a[1] = b[1] /\ a[2] < b[2])

\* the None sentinel is on the result queue or was received by the consumer
SentinelOut ==
    \/ \E k \in 1..Len(result_queue) : result_queue[k] = NoneItem
    \/ cons \in {"await_main", "done", "error"}

\* no File is on the result queue behind a None
NoFileBehindSentinel ==
    \A k, l \in 1..Len(result_queue) :
        (k < l /\ result_queue[k] = NoneItem) => result_queue[l] = NoneItem

\* C14: the Files the consumer has pulled are, in order, the first Files
\* that the read tasks put on the result queue: delivery order is the order
\* of the puts, whatever the listing order.
C14_DeliveredInEnqueueOrder ==
    /\ Len(delivered) <= Len(enqueued)
    /\ delivered = SubSeq(enqueued, 1, Len(delivered))

\* two Files were delivered against the listing order
C14_Witness ==
    /\ cons = "done"
    /\ \E m, n \in 1..Len(delivered) :
          m < n /\ Before(delivered[n].origin, delivered[m].origin)

\* C15: in prefix mode, whenever the None sentinel is on the result queue
\* or was received by the consumer, no read task is in flight and no File is
\* on the queue behind the sentinel.
C15_SentinelAfterReads ==
    (mode = "prefix" /\ SentinelOut) =>
        /\ \A i \in DOMAIN tasks : ~InFlight(tasks[i])
        /\ NoFileBehindSentinel

\* C16: in pointer-list mode the read tasks spawned and not yet joined never
\* number more than BatchSize, the loop spawns a bucket only when the one
\* before was joined, and a run that ends normally has performed at least
\* Len(pointers) \div BatchSize + 1 joins (3 for 12,003 pointers and 5000).
C16_BatchJoins ==
    mode = "list" =>
        /\ Len(tasks) <= BatchSize
        /\ Cardinality({ i \in DOMAIN tasks : InFlight(tasks[i]) })
              <= BatchSize + MaxConcurrentReads
        /\ main.pc = "spawn" => tasks = <<>>
        /\ (main.pc = "done" /\ main.exc = "none") =>
              joins >= (Len(pointers) \div BatchSize) + 1

\* a list of 2 * BatchSize + 1 pointers was read to the end with 3 joins
C16_Witness ==
    /\ mode = "list" /\ cons = "done"
    /\ Len(pointers) = 2 * BatchSize + 1
    /\ joins >= 3
    /\ Len(delivered) = Len(pointers)

\* C17: in pointer-list mode, a run without read failure that the consumer
\* pulled to the end has delivered exactly one File per pointer of the list
\* (none for the empty list), and the None sentinel is put on the result
\* queue only after the last join, when every File has been enqueued.
C17_OneFilePerPointer ==
    mode = "list" =>
        /\ (cons = "done" /\ ~read_failed) =>
              SeqToBag([n \in 1..Len(delivered) |-> delivered[n].origin])
                = SeqToBag([k \in 1..Len(pointers) |-> pointers[k].origin])
        /\ SentinelOut =>
              /\ main.pc = "done" /\ joins >= 1
              /\ Len(enqueued) = Len(pointers)
              /\ \A i \in DOMAIN tasks : ~InFlight(tasks[i])
              /\ NoFileBehindSentinel

C17_Witness ==
    /\ mode = "list" /\ cons = "done"
    /\ Len(pointers) = 3
    /\ Len(delivered) = 3

\* C18: in prefix mode read tasks are created in listing order: the places
\* of the spawned tasks are strictly increasing (page, then position in the
\* page), and when the task of an entry has been spawned, so has the task
\* of every valid matching entry before it in the listing.
C18_SpawnInListingOrder ==
    mode = "prefix" =>
        /\ \A i, j \in 1..Len(spawned) : i < j => Before(spawned[i], spawned[j])
        /\ \A j \in 1..Len(spawned) :
              \A p \in 1..Len(listing) : \A k \in 1..Len(listing[p]) :
                  (Filtered(listing[p][k]) /\ Before(<<p, k>>, spawned[j])) =>
                      \E i \in 1..(j - 1) : spawned[i] = <<p, k>>

\* three tasks were spawned from two pages
C18_Witness ==
    /\ mode = "prefix"
    /\ Len(spawned) = 3
    /\ spawned[1][1] # spawned[3][1]
    /\ spawned[2][1] = spawned[3][1]

\* C20: in prefix mode every read task in flight belongs to the page the
\* page processor is on, and a read task of a later page is spawned only
\* when every read task of the earlier pages has put its File on the result
\* queue.
C20_PageBarrier ==
    mode = "prefix" =>
        /\ \A i \in DOMAIN tasks :
              InFlight(tasks[i]) => tasks[i].ptr.origin[1] = pp.page
        /\ \A i, j \in 1..Len(spawned) :
              spawned[i][1] < spawned[j][1] =>
                  \E n \in 1..Len(enqueued) : enqueued[n].origin = spawned[i]

\* a read task of the second page is in flight after the first page's reads
C20_Witness ==
    /\ mode = "prefix"
    /\ \E i \in DOMAIN tasks : InFlight(tasks[i]) /\ tasks[i].ptr.origin[1] = 2
    /\ \E n \in 1..Len(enqueued) : enqueued[n].origin[1] = 1

\* the scheme of the URI is missing or none of s3, gs, az
UnsupportedScheme ==
    UrlParseScheme(uri) \notin {<<"s", "3">>, <<"g", "s">>, <<"a", "z">>}

C13_UnsupportedSchemeAtDispatch ==
    (mode = "facade" /\ UnsupportedScheme /\ cons \notin {"not_called", "created"}) =>
        /\ cons = "error" /\ cons_err = "NotImplementedError"
        /\ client = NoClient
        /\ close_calls = 0

\* the prefix that is used for listing is '' for '' and else the given prefix
\* without its leading '/' and with one '/' appended, which does not start
\* with '/' and ends with exactly one '/'
PrefixNormalized ==
    IF start_prefix = <<>> THEN prefix = <<>>
    ELSE /\ prefix = LStrip(start_prefix, DELIMITER) \o <<DELIMITER>>
         /\ prefix[1] # DELIMITER
         /\ prefix[Len(prefix)] = DELIMITER
         /\ Len(prefix) > 1 => prefix[Len(prefix) - 1] # DELIMITER

\* C19 (as stated): for every prefix string given to the prefix-mode
\* pipeline, through iter_files or to Client.iter_files itself, the prefix
\* used for listing is normalised.
C19_EveryPrefixNormalized ==
    cons = "pull" => PrefixNormalized

\* C19: for every URI given to iter_files, the prefix handed to the
\* pipeline is the URI path without its trailing '/', and the prefix used
\* for listing is normalised.
C19_FacadePrefixNormalized ==
    (mode = "facade" /\ cons = "pull") =>
        /\ start_prefix = RStrip(SplitUrl(adapter, uri)[2], DELIMITER)
        /\ PrefixNormalized

\* a URI path with leading and trailing '/' was normalised
C19_Witness ==
    /\ mode = "facade" /\ cons = "pull"
    /\ Len(start_prefix) < Len(SplitUrl(adapter, uri)[2])
    /\ Len(prefix) < Len(SplitUrl(adapter, uri)[2])
    /\ prefix # <<>>

\* C21: in prefix mode the consumer, once it has received the None sentinel
\* and awaits main_task, is never left waiting with nothing able to move:
\* the put of the second sentinel in the finally block of _fetch_prefix does
\* not block forever.
C21_AwaitMainCompletes ==
    mode = "prefix" => ~(cons = "await_main" /\ Quiescent)

\* C22: in pointer-list mode a consumer that keeps pulling is never left
\* waiting with nothing able to move: the iteration has ended normally or
\* with an error.
C22_ListModeEnds ==
    (mode = "list" /\ cons # "closed" /\ Quiescent) => cons \in {"done", "error"}

\* the read tasks inside the body of _read_file
InReadBody == { i \in DOMAIN tasks : tasks[i].st = "read" }

====
